---- MODULE Spec2Model ----
(***************************************************************************)
(* Lokomotive components: cluster-autoscaler, contour and                  *)
(* flatcar-linux-update-operator.  Each component is a struct that         *)
(* LoadConfig fills from an HCL body and RenderManifests turns into a      *)
(* path -> manifest map.                                                   *)
(*                                                                         *)
(* Go strings whose contents the code inspects (hostnames, cluster names,  *)
(* raw durations, user data) are sequences of one-character strings or of  *)
(* bytes; strings the code only compares are TLA+ strings.                 *)
(***************************************************************************)
EXTENDS Integers, Sequences, FiniteSets, TLC

\* ------------------------------------------------------------------------
\* Bounds of the model
\* ------------------------------------------------------------------------

\* longest inventory list handed to getWorkerUserdata
MaxDevices == 3

\* ------------------------------------------------------------------------
\* strings.Contains, base64.StdEncoding.EncodeToString
\* ------------------------------------------------------------------------

\* strings.Contains(s, substr): substr occurs at some offset of s; the empty
\* string occurs in every string.
Contains(s, substr) ==
    \E off \in 0..(Len(s) - Len(substr)) :
        \A k \in 1..Len(substr) : s[off + k] = substr[k]

\* a Go string, kept as the sequence of its characters, as one text
RECURSIVE StringOf(_)
StringOf(chars) == IF chars = <<>> THEN "" ELSE Head(chars) \o StringOf(Tail(chars))

\* fmt's %q of a string without characters to escape
Quoted(text) == "\"" \o text \o "\""

\* the marker of component.go:163
WorkerMarker == <<"w", "o", "r", "k", "e", "r">>

\* the alphabet of base64.StdEncoding, then the padding character
Base64Alphabet ==
    << "A","B","C","D","E","F","G","H","I","J","K","L","M","N","O","P",
       "Q","R","S","T","U","V","W","X","Y","Z","a","b","c","d","e","f",
       "g","h","i","j","k","l","m","n","o","p","q","r","s","t","u","v",
       "w","x","y","z","0","1","2","3","4","5","6","7","8","9","+","/" >>

Base64Pad == "="

Sextet(n) == Base64Alphabet[n + 1]

\* base64.StdEncoding.EncodeToString over a sequence of bytes (0..255):
\* three bytes give four characters; a tail of one byte gives two characters
\* and "==", a tail of two bytes three characters and "=".
RECURSIVE EncodeToString(_)
EncodeToString(b) ==
    IF Len(b) = 0 THEN <<>>
    ELSE IF Len(b) = 1 THEN
        << Sextet(b[1] \div 4), Sextet((b[1] % 4) * 16), Base64Pad, Base64Pad >>
    ELSE IF Len(b) = 2 THEN
        << Sextet(b[1] \div 4),
           Sextet((b[1] % 4) * 16 + (b[2] \div 16)),
           Sextet((b[2] % 16) * 4),
           Base64Pad >>
    ELSE
        << Sextet(b[1] \div 4),
           Sextet((b[1] % 4) * 16 + (b[2] \div 16)),
           Sextet((b[2] % 16) * 4 + (b[3] \div 64)),
           Sextet(b[3] % 64) >>
        \o EncodeToString(SubSeq(b, 4, Len(b)))

\* ------------------------------------------------------------------------
\* getWorkerUserdata (cluster-autoscaler)
\* ------------------------------------------------------------------------

\* error values: errors.New / fmt.Errorf results, by kind and the value named
NoError == [kind |-> "nil", names |-> <<>>]
DuplicateError(hostname) == [kind |-> "two devices with the same name", names |-> hostname]
NoWorkerError(clusterName) == [kind |-> "no worker was found", names |-> clusterName]

\* state of the loop before the first device
gwuStart == [userData |-> <<>>, deviceSet |-> {}, done |-> FALSE, err |-> NoError]

\* gwuIterate with the hostname looked up in deviceSet before the facility is
\* compared: devices of every facility enter the set
gwuIterate_SetBeforeFacility(st, clusterName, facility, d) ==
    IF st.done THEN st
    ELSE IF d.Hostname \in st.deviceSet
        THEN [st EXCEPT !.done = TRUE, !.err = DuplicateError(d.Hostname)]
    ELSE IF d.Facility # facility THEN [st EXCEPT !.deviceSet = @ \cup {d.Hostname}]
    ELSE IF Contains(d.Hostname, clusterName) /\ Contains(d.Hostname, WorkerMarker)
        THEN [st EXCEPT !.deviceSet = @ \cup {d.Hostname},
                        !.userData = EncodeToString(d.UserData)]
    ELSE [st EXCEPT !.deviceSet = @ \cup {d.Hostname}]

\* gwuIterate without the comparison of the facility
gwuIterate_AnyFacility(st, clusterName, facility, d) ==
    IF st.done THEN st
    ELSE IF d.Facility = facility /\ d.Hostname \in st.deviceSet
        THEN [st EXCEPT !.done = TRUE, !.err = DuplicateError(d.Hostname)]
    ELSE IF Contains(d.Hostname, clusterName) /\ Contains(d.Hostname, WorkerMarker)
        THEN [st EXCEPT !.deviceSet = @ \cup {d.Hostname},
                        !.userData = EncodeToString(d.UserData)]
    ELSE [st EXCEPT !.deviceSet = @ \cup {d.Hostname}]

\* one iteration of the range loop over devices
gwuIterate(st, clusterName, facility, d) ==
    IF st.done THEN st
    ELSE IF d.Facility # facility THEN st
    ELSE IF d.Hostname \in st.deviceSet
        THEN [st EXCEPT !.done = TRUE, !.err = DuplicateError(d.Hostname)]
    ELSE IF Contains(d.Hostname, clusterName) /\ Contains(d.Hostname, WorkerMarker)
        THEN [st EXCEPT !.deviceSet = @ \cup {d.Hostname},
                        !.userData = EncodeToString(d.UserData)]
    ELSE [st EXCEPT !.deviceSet = @ \cup {d.Hostname}]

RECURSIVE gwuLoop(_, _, _, _)
gwuLoop(st, clusterName, facility, devices) ==
    IF devices = <<>> THEN st
    ELSE gwuLoop(gwuIterate(st, clusterName, facility, Head(devices)),
                 clusterName, facility, Tail(devices))

\* the statements after the loop: the error of the loop, or the check of
\* userData against the empty string
gwuReturn(st, clusterName) ==
    IF st.done THEN [userData |-> <<>>, err |-> st.err]
    ELSE IF st.userData = <<>>
        THEN [userData |-> <<>>, err |-> NoWorkerError(clusterName)]
    ELSE [userData |-> st.userData, err |-> NoError]

\* getWorkerUserdata(clusterName, facility, devices) -> (string, error)
getWorkerUserdata(clusterName, facility, devices) ==
    gwuReturn(gwuLoop(gwuStart, clusterName, facility, devices), clusterName)

\* ------------------------------------------------------------------------
\* time.Duration and time.ParseDuration
\* ------------------------------------------------------------------------

\* A time.Duration is an int64 count of nanoseconds.  It is kept here as the
\* pair [s, ns] with d = s * 10^9 + ns and both parts of the sign of d (the
\* quotient and remainder of Go's d / 1e9 and d % 1e9), so that ten minutes
\* (6 * 10^11 ns) stays inside the integers of the model checker.  The raw strings
\* of the model have at most four digits per number, so the int64 overflow
\* branches of ParseDuration are never taken.
Nanosecond == 1
Microsecond == 1000
Millisecond == 1000000
Second == 1000000000

Seconds(n) == [s |-> n, ns |-> 0]
Minutes(n) == [s |-> 60 * n, ns |-> 0]
ZeroDuration == [s |-> 0, ns |-> 0]

DurationAdd(a, b) ==
    [s |-> a.s + b.s + ((a.ns + b.ns) \div Second), ns |-> (a.ns + b.ns) % Second]

DurationNeg(a) == [s |-> 0 - a.s, ns |-> 0 - a.ns]

Digits == <<"0", "1", "2", "3", "4", "5", "6", "7", "8", "9">>

IsDigit(ch) == \E k \in 1..10 : Digits[k] = ch

DigitValue(ch) == (CHOOSE k \in 1..10 : Digits[k] = ch) - 1

\* leadingInt: the leading [0-9]* of s as a number, and the rest of s
RECURSIVE leadingIntFrom(_, _)
leadingIntFrom(x, s) ==
    IF s # <<>> /\ IsDigit(Head(s))
        THEN leadingIntFrom(x * 10 + DigitValue(Head(s)), Tail(s))
        ELSE [x |-> x, rem |-> s]

leadingInt(s) == leadingIntFrom(0, s)

\* leadingFraction: the leading [0-9]* of s as the numerator x and the power
\* of ten scale of a fraction x / scale, and the rest of s
RECURSIVE leadingFractionFrom(_, _, _)
leadingFractionFrom(x, scale, s) ==
    IF s # <<>> /\ IsDigit(Head(s))
        THEN leadingFractionFrom(x * 10 + DigitValue(Head(s)), scale * 10, Tail(s))
        ELSE [x |-> x, scale |-> scale, rem |-> s]

leadingFraction(s) == leadingFractionFrom(0, 1, s)

\* length of the unit: the characters up to the next '.' or digit
RECURSIVE unitLength(_)
unitLength(s) ==
    IF s = <<>> \/ Head(s) = "." \/ IsDigit(Head(s)) THEN 0
    ELSE 1 + unitLength(Tail(s))

\* unitMap of package time: the unit as whole seconds or as nanoseconds (the
\* two non-ASCII spellings of "us" are left out: the raw strings are ASCII)
unitMap ==
    { [u |-> <<"n", "s">>, s |-> 0, ns |-> Nanosecond],
      [u |-> <<"u", "s">>, s |-> 0, ns |-> Microsecond],
      [u |-> <<"m", "s">>, s |-> 0, ns |-> Millisecond],
      [u |-> <<"s">>, s |-> 1, ns |-> 0],
      [u |-> <<"m">>, s |-> 60, ns |-> 0],
      [u |-> <<"h">>, s |-> 3600, ns |-> 0] }

\* v * unit
ScaleInt(v, unit) ==
    IF unit.ns = 0 THEN [s |-> v * unit.s, ns |-> 0]
    ELSE [s |-> v \div (Second \div unit.ns),
          ns |-> (v % (Second \div unit.ns)) * unit.ns]

\* int64(float64(f) * (float64(unit) / scale)), for f / scale < 1
ScaleFraction(f, scale, unit) ==
    IF unit.ns = 0
        THEN [s |-> (f * unit.s) \div scale,
              ns |-> ((f * unit.s) % scale) * (Second \div scale)]
    ELSE IF scale <= unit.ns
        THEN [s |-> 0, ns |-> f * (unit.ns \div scale)]
    ELSE [s |-> 0, ns |-> f \div (scale \div unit.ns)]

\* the errors of ParseDuration up to the string parsed, which ParseDuration
\* appends: errors.New("time: invalid duration " + orig) and the like
ErrInvalidDuration == "time: invalid duration"
ErrMissingUnit == "time: missing unit in duration"
ErrUnknownUnit(u) == "time: unknown unit " \o StringOf(u) \o " in duration"

\* the error with the string parsed at its end
inDuration(r, orig) == IF r.err = "" THEN r ELSE [r EXCEPT !.err = @ \o " " \o StringOf(orig)]

RECURSIVE parseTerms(_, _)

\* the unit u of a term and what follows it: the term li.x + lf.x / lf.scale
\* in that unit is added to d and the loop goes on with the rest
parseUnit(d, li, lf, u, rest) ==
    IF u = <<>> THEN [d |-> ZeroDuration, err |-> ErrMissingUnit]
    ELSE IF ~(\E e \in unitMap : e.u = u)
        THEN [d |-> ZeroDuration, err |-> ErrUnknownUnit(u)]
    ELSE
        LET unit == CHOOSE e \in unitMap : e.u = u
        IN  parseTerms(
                DurationAdd(d, IF lf.x > 0
                               THEN DurationAdd(ScaleInt(li.x, unit),
                                                ScaleFraction(lf.x, lf.scale, unit))
                               ELSE ScaleInt(li.x, unit)),
                rest)

\* a term whose digits are read: pre and post tell whether digits stood
\* before and after the period; i is the length of the unit
parseDigits(d, pre, post, li, lf, i) ==
    IF ~pre /\ ~post THEN [d |-> ZeroDuration, err |-> ErrInvalidDuration]
    ELSE parseUnit(d, li, lf, SubSeq(lf.rem, 1, i), SubSeq(lf.rem, i + 1, Len(lf.rem)))

\* a term whose leading integer li is read: "(\.[0-9]*)?" comes next
parseFraction(d, pre, hasDot, li, lf) ==
    parseDigits(d, pre, hasDot /\ Len(lf.rem) # Len(li.rem) - 1, li, lf,
                unitLength(lf.rem))

parseInt(d, s, li) ==
    parseFraction(d, Len(li.rem) # Len(s),
                  li.rem # <<>> /\ Head(li.rem) = ".",
                  li,
                  IF li.rem # <<>> /\ Head(li.rem) = "."
                  THEN leadingFraction(Tail(li.rem))
                  ELSE [x |-> 0, scale |-> 1, rem |-> li.rem])

\* the loop "for s != ''" of ParseDuration, d the sum so far
parseTerms(d, s) ==
    IF s = <<>> THEN [d |-> d, err |-> ""]
    ELSE IF ~(Head(s) = "." \/ IsDigit(Head(s)))
        THEN [d |-> ZeroDuration, err |-> ErrInvalidDuration]
    ELSE parseInt(d, s, leadingInt(s))

\* "if neg { d = -d }"
signedDuration(neg, r) ==
    IF r.err # "" THEN r
    ELSE IF neg THEN [d |-> DurationNeg(r.d), err |-> ""]
    ELSE r

\* time.ParseDuration(s) -> (Duration, error); err = "" is the nil error
ParseDuration(orig) ==
    LET signed == orig # <<>> /\ Head(orig) \in {"-", "+"}
        s == IF signed THEN Tail(orig) ELSE orig
    IN  IF s = <<"0">> THEN [d |-> ZeroDuration, err |-> ""]
        ELSE IF s = <<>>
            THEN inDuration([d |-> ZeroDuration, err |-> ErrInvalidDuration], orig)
        ELSE inDuration(signedDuration(signed /\ Head(orig) = "-",
                                       parseTerms(ZeroDuration, s)),
                        orig)

\* ------------------------------------------------------------------------
\* hcl.Diagnostics and gohcl.DecodeBody
\* ------------------------------------------------------------------------

DiagError == "error"

\* &hcl.Diagnostic{Severity: hcl.DiagError, Summary: ..., Detail: ...}
Diagnostic(summary, detail) ==
    [Severity |-> DiagError, Summary |-> summary, Detail |-> detail, Subject |-> ""]

\* hcl.Diagnostics.HasErrors
HasErrors(diags) == \E k \in 1..Len(diags) : diags[k].Severity = DiagError

\* An attribute of a body: not written, written with a value of the field's
\* type, or written with a value that does not convert to the field's type
\* (z is a value of the field's type that is never read).
Absent(z) == [set |-> FALSE, ok |-> TRUE, val |-> z]
Value(v) == [set |-> TRUE, ok |-> TRUE, val |-> v]
Unsuitable(z) == [set |-> TRUE, ok |-> FALSE, val |-> z]

\* gohcl decodes an attribute into its field only when it is written and
\* converts; the field keeps its value otherwise.
DecodeAttr(old, attr) == IF attr.set /\ attr.ok THEN attr.val ELSE old

\* the diagnostic of gohcl.DecodeExpression for an attribute that does not
\* convert
UnsuitableValue(attrName) ==
    [Severity |-> DiagError, Summary |-> "Unsuitable value type",
     Detail |-> "Unsuitable value", Subject |-> attrName]

\* the diagnostic of hcl.Body.Content for an argument the schema lacks
UnsupportedArgument ==
    [Severity |-> DiagError, Summary |-> "Unsupported argument",
     Detail |-> "An argument is not expected here", Subject |-> "<unsupported>"]

ContentDiags(body) == IF body.unsupported THEN <<UnsupportedArgument>> ELSE <<>>

\* gohcl walks the attributes of a struct in the order of a Go map: the
\* diagnostics of the attributes that do not convert come in any order.
RECURSIVE Orders(_)
Orders(S) ==
    IF S = {} THEN {<<>>}
    ELSE UNION { { <<x>> \o o : o \in Orders(S \ {x}) } : x \in S }

RECURSIVE AttrDiags(_)
AttrDiags(order) ==
    IF order = <<>> THEN <<>>
    ELSE <<UnsuitableValue(Head(order))>> \o AttrDiags(Tail(order))

BadAttrs(body, attrNames) == {n \in attrNames : body[n].set /\ ~body[n].ok}

\* ------------------------------------------------------------------------
\* cluster-autoscaler: component, newComponent
\* ------------------------------------------------------------------------

ClusterAutoscalerName == "cluster-autoscaler"

\* a *packetConfiguration: nil, or a pointer to the struct
NilPacket ==
    [isNil |-> TRUE, ProjectID |-> "", Facility |-> "", WorkerType |-> "",
     WorkerChannel |-> "", UserData |-> <<>>, AuthToken |-> <<>>]

\* &packetConfiguration{}
EmptyPacket == [NilPacket EXCEPT !.isNil = FALSE]

newComponent_ClusterAutoscaler ==
    [Provider |-> "packet",
     WorkerPool |-> "",
     ClusterName |-> <<>>,
     Namespace |-> "kube-system",
     MinWorkers |-> 1,
     MaxWorkers |-> 4,
     ScaleDownUnneededTime |-> Minutes(10),
     ScaleDownUnneededTimeRaw |-> <<>>,
     ScaleDownDelayAfterAdd |-> Minutes(10),
     ScaleDownDelayAfterAddRaw |-> <<>>,
     ScaleDownUnreadyTime |-> Minutes(20),
     ScaleDownUnreadyTimeRaw |-> <<>>,
     ServiceMonitor |-> FALSE,
     Packet |-> [EmptyPacket EXCEPT !.WorkerType = "baremetal_0",
                                    !.WorkerChannel = "stable"]]

\* the attributes of the component struct and of the packet block
ClusterAutoscalerAttrs ==
    {"provider", "worker_pool", "cluster_name", "namespace", "min_workers",
     "max_workers", "scale_down_unneeded_time", "scale_down_delay_after_add",
     "scale_down_unready_time", "service_monitor"}

PacketAttrs == {"project_id", "facility", "worker_type", "worker_channel"}

\* the packet block of a body, decoded into *packetConfiguration: a missing
\* block leaves the pointer as it is; a block is decoded into the struct the
\* pointer has, or into a new one when the pointer is nil.
DecodePacket(old, block) ==
    IF ~block.present THEN old
    ELSE LET into == IF old.isNil THEN EmptyPacket ELSE old
         IN  [into EXCEPT !.ProjectID = DecodeAttr(@, block.project_id),
                          !.Facility = DecodeAttr(@, block.facility),
                          !.WorkerType = DecodeAttr(@, block.worker_type),
                          !.WorkerChannel = DecodeAttr(@, block.worker_channel)]

\* gohcl.DecodeBody(*configBody, evalContext, c) for the cluster-autoscaler;
\* order is the order in which the attributes that do not convert are met
\* (top-level attributes, then those of the packet block).
DecodeBody_ClusterAutoscaler(c, body, order, packetOrder) ==
    [c |-> [c EXCEPT
              !.Provider = DecodeAttr(@, body.provider),
              !.WorkerPool = DecodeAttr(@, body.worker_pool),
              !.ClusterName = DecodeAttr(@, body.cluster_name),
              !.Namespace = DecodeAttr(@, body.namespace),
              !.MinWorkers = DecodeAttr(@, body.min_workers),
              !.MaxWorkers = DecodeAttr(@, body.max_workers),
              !.ScaleDownUnneededTimeRaw = DecodeAttr(@, body.scale_down_unneeded_time),
              !.ScaleDownDelayAfterAddRaw = DecodeAttr(@, body.scale_down_delay_after_add),
              !.ScaleDownUnreadyTimeRaw = DecodeAttr(@, body.scale_down_unready_time),
              !.ServiceMonitor = DecodeAttr(@, body.service_monitor),
              !.Packet = DecodePacket(@, body.packet)],
     diags |-> ContentDiags(body) \o AttrDiags(order) \o AttrDiags(packetOrder)]

\* the hcl.EmptyBody() that LoadConfig decodes when configBody is nil
EmptyBody_ClusterAutoscaler ==
    [isNil |-> FALSE, unsupported |-> FALSE,
     provider |-> Absent(""), worker_pool |-> Absent(""),
     cluster_name |-> Absent(<<>>), namespace |-> Absent(""),
     min_workers |-> Absent(0), max_workers |-> Absent(0),
     scale_down_unneeded_time |-> Absent(<<>>),
     scale_down_delay_after_add |-> Absent(<<>>),
     scale_down_unready_time |-> Absent(<<>>),
     service_monitor |-> Absent(FALSE),
     packet |-> [present |-> FALSE, project_id |-> Absent(""),
                 facility |-> Absent(""), worker_type |-> Absent(""),
                 worker_channel |-> Absent("")]]

\* ------------------------------------------------------------------------
\* cluster-autoscaler: parseDurations, validatePacket, LoadConfig
\* ------------------------------------------------------------------------

ParseErrorDiag(attrName, err) ==
    Diagnostic("error parsing '" \o attrName \o "'",
               "error parsing '" \o attrName \o "': " \o err)

\* the assignment "c.X, err = time.ParseDuration(c.XRaw)" and the "if err !=
\* nil" after it: the field takes whatever ParseDuration returned
parsedField(r, attrName) ==
    [d |-> r.d,
     diags |-> IF r.err # "" THEN <<ParseErrorDiag(attrName, r.err)>> ELSE <<>>]

\* parseOne adding the parsed duration to the field instead of assigning it
parseOne_Adding(old, raw, attrName) ==
    IF raw = <<>> THEN [d |-> old, diags |-> <<>>]
    ELSE [d |-> DurationAdd(old, ParseDuration(raw).d),
          diags |-> parsedField(ParseDuration(raw), attrName).diags]

\* one "if c.XRaw != ''" block of parseDurations
parseOne(old, raw, attrName) ==
    IF raw = <<>> THEN [d |-> old, diags |-> <<>>]
    ELSE parsedField(ParseDuration(raw), attrName)

\* parsedDurations returning at the first block that failed: the blocks after
\* it are neither converted nor reported
parsedDurations_StopAtFirstError(c, a, b, u) ==
    IF a.diags # <<>>
        THEN [c |-> [c EXCEPT !.ScaleDownUnneededTime = a.d], diags |-> a.diags]
    ELSE IF b.diags # <<>>
        THEN [c |-> [c EXCEPT !.ScaleDownUnneededTime = a.d,
                              !.ScaleDownDelayAfterAdd = b.d],
              diags |-> b.diags]
    ELSE [c |-> [c EXCEPT !.ScaleDownUnneededTime = a.d,
                          !.ScaleDownDelayAfterAdd = b.d,
                          !.ScaleDownUnreadyTime = u.d],
          diags |-> u.diags]

\* the component and the diagnostics after the three blocks a, b and u
parsedDurations(c, a, b, u) ==
    [c |-> [c EXCEPT !.ScaleDownUnneededTime = a.d,
                     !.ScaleDownDelayAfterAdd = b.d,
                     !.ScaleDownUnreadyTime = u.d],
     diags |-> a.diags \o b.diags \o u.diags]

parseDurations(c) ==
    parsedDurations(c,
        parseOne(c.ScaleDownUnneededTime, c.ScaleDownUnneededTimeRaw,
                 "scale_down_unneeded_time"),
        parseOne(c.ScaleDownDelayAfterAdd, c.ScaleDownDelayAfterAddRaw,
                 "scale_down_delay_after_add"),
        parseOne(c.ScaleDownUnreadyTime, c.ScaleDownUnreadyTimeRaw,
                 "scale_down_unready_time"))

validatePacket(c, diagnostics) ==
    LET packet == IF c.Packet.isNil THEN EmptyPacket ELSE c.Packet
        d1 == IF c.Packet.isNil
              THEN <<Diagnostic("'packet' block must exist",
                                "When using Packet provider, 'packet' block must exist")>>
              ELSE <<>>
        d2 == IF packet.ProjectID = ""
              THEN <<Diagnostic("'project_id' must be set",
                                "When using Packet provider, 'project_id' must be set but it was not found")>>
              ELSE <<>>
        d3 == IF packet.Facility = ""
              THEN <<Diagnostic("'facility' must be set",
                                "When using Packet provider, 'facility' must be set but it was not found")>>
              ELSE <<>>
    IN  [c |-> [c EXCEPT !.Packet = packet],
         diags |-> diagnostics \o d1 \o d2 \o d3]

ConfigAbsentDiag ==
    Diagnostic("component requires configuration",
               "component has required fields in its configuration, so configuration block must be created")

UnsupportedProviderDiag ==
    Diagnostic("Make sure to set provider to one of supported values",
               "provider must be one of: 'packet'")

WorkerPoolDiag ==
    Diagnostic("'worker_pool' must be set", "'worker_pool' must be set but it was not found")

ClusterNameDiag ==
    Diagnostic("'cluster_name' must be set", "'cluster_name' must be set but it was not found")

\* LoadConfig from "if c.WorkerPool == ''" on
loadRequired(v) ==
    [c |-> v.c,
     diags |-> v.diags
               \o (IF v.c.WorkerPool = "" THEN <<WorkerPoolDiag>> ELSE <<>>)
               \o (IF v.c.ClusterName = <<>> THEN <<ClusterNameDiag>> ELSE <<>>)]

\* LoadConfig from "switch c.Provider" on
loadProvider(c, diagnostics) ==
    loadRequired(IF c.Provider = "packet"
                 THEN validatePacket(c, diagnostics)
                 ELSE [c |-> c, diags |-> diagnostics \o <<UnsupportedProviderDiag>>])

\* LoadConfig from "diagnostics = append(diagnostics, c.parseDurations()...)" on
loadDurations(diagnostics, dur) == loadProvider(dur.c, diagnostics \o dur.diags)

\* LoadConfig from the result of gohcl.DecodeBody on
loadDecoded(diagnostics, dec) ==
    loadDurations(diagnostics \o dec.diags, parseDurations(dec.c))

\* LoadConfig returning right after the diagnostic of a nil configBody
LoadConfig_ClusterAutoscaler_ReturnOnNil(c, body, order, packetOrder) ==
    IF body.isNil THEN [c |-> c, diags |-> <<ConfigAbsentDiag>>]
    ELSE loadDecoded(<<>>, DecodeBody_ClusterAutoscaler(c, body, order, packetOrder))

\* (c *component) LoadConfig(configBody, evalContext) of the cluster-autoscaler
LoadConfig_ClusterAutoscaler(c, body, order, packetOrder) ==
    loadDecoded(IF body.isNil THEN <<ConfigAbsentDiag>> ELSE <<>>,
                DecodeBody_ClusterAutoscaler(
                    c, IF body.isNil THEN EmptyBody_ClusterAutoscaler ELSE body,
                    order, packetOrder))

\* ------------------------------------------------------------------------
\* External collaborators of RenderManifests
\* ------------------------------------------------------------------------

\* A snapshot of what RenderManifests reads from outside the component:
\*   assets   whether the chart (or manifest) assets can be loaded
\*   failing  the step of rendering that fails for these assets: "" (none),
\*            "tolerations", "affinity", "template" or "chart"
\*   token    the bytes of PACKET_AUTH_TOKEN (empty when unset)
\*   project  the one project the inventory API knows
\*   devices  the devices of that project, in the order the API lists them

\* packngo.NewClient fails when PACKET_AUTH_TOKEN is empty
NewClientFails(snap) == snap.token = <<>>

\* cl.Devices.List(projectID, nil): the devices of a known project, an error
\* for any other project ID
DevicesListFails(snap, projectID) == projectID # snap.project

\* util.RenderChart(helmChart, name, namespace, values): one rendering of the
\* chart for a release name, a namespace and a values document
RenderChart(chart, releaseName, namespace, values) ==
    { [path |-> chart,
       text |-> [name |-> releaseName, namespace |-> namespace, values |-> values]] }

\* utilpkg.RenderTemplate / internaltemplate.Render returns an error
RenderTemplateFails(snap) == snap.failing = "template"

\* util.RenderChart returns an error
RenderChartFails(snap) == snap.failing = "chart"

\* what a RenderManifests call returns, and the project IDs it listed
RenderError(err, listed) == [err |-> err, manifests |-> {}, listed |-> listed]
RenderOk(manifests, listed) == [err |-> "", manifests |-> manifests, listed |-> listed]

\* ------------------------------------------------------------------------
\* cluster-autoscaler: RenderManifests, Metadata
\* ------------------------------------------------------------------------

\* utilpkg.RenderTemplate(chartValuesTmpl, c): the values the template reads
\* from the component, the namespace only inside "if .ServiceMonitor"
chartValues_ClusterAutoscaler(c) ==
    [Provider |-> c.Provider,
     ClusterName |-> c.ClusterName,
     AuthToken |-> c.Packet.AuthToken,
     UserData |-> c.Packet.UserData,
     ProjectID |-> c.Packet.ProjectID,
     Facility |-> c.Packet.Facility,
     WorkerChannel |-> c.Packet.WorkerChannel,
     WorkerType |-> c.Packet.WorkerType,
     WorkerPool |-> c.WorkerPool,
     MaxWorkers |-> c.MaxWorkers,
     MinWorkers |-> c.MinWorkers,
     ScaleDownUnneededTime |-> c.ScaleDownUnneededTime,
     ScaleDownDelayAfterAdd |-> c.ScaleDownDelayAfterAdd,
     ScaleDownUnreadyTime |-> c.ScaleDownUnreadyTime,
     ServiceMonitor |-> c.ServiceMonitor,
     Namespace |-> IF c.ServiceMonitor THEN c.Namespace ELSE ""]

\* the tail of RenderManifests: render the values, then the chart; an error
\* of either is returned, with the fields written before left as they are
renderChart_ClusterAutoscaler(c, snap, listed) ==
    IF RenderTemplateFails(snap)
        THEN [c |-> c, res |-> RenderError("render chart values template", listed)]
    ELSE IF RenderChartFails(snap)
        THEN [c |-> c, res |-> RenderError("rendering chart", listed)]
    ELSE [c |-> c,
          res |-> RenderOk(RenderChart("/components/cluster-autoscaler",
                                       ClusterAutoscalerName, c.Namespace,
                                       chartValues_ClusterAutoscaler(c)),
                           listed)]

\* renderUserdata appending the encoded token to the field instead of
\* assigning it
renderUserdata_AppendingToken(c, snap, w) ==
    IF w.err # NoError
        THEN [c |-> c,
              res |-> RenderError("getting worker data for cluster", <<c.Packet.ProjectID>>)]
    ELSE renderChart_ClusterAutoscaler(
             [c EXCEPT !.Packet.UserData = w.userData,
                       !.Packet.AuthToken = @ \o EncodeToString(snap.token)],
             snap, <<c.Packet.ProjectID>>)

\* RenderManifests from the result w of getWorkerUserdata on
renderUserdata(c, snap, w) ==
    IF w.err # NoError
        THEN [c |-> c,
              res |-> RenderError("getting worker data for cluster", <<c.Packet.ProjectID>>)]
    ELSE renderChart_ClusterAutoscaler(
             [c EXCEPT !.Packet.UserData = w.userData,
                       !.Packet.AuthToken = EncodeToString(snap.token)],
             snap, <<c.Packet.ProjectID>>)

\* (c *component) RenderManifests() of the cluster-autoscaler
RenderManifests_ClusterAutoscaler(c, snap) ==
    IF ~snap.assets THEN [c |-> c, res |-> RenderError("load chart from assets", <<>>)]
    ELSE IF c.Provider # "packet" THEN renderChart_ClusterAutoscaler(c, snap, <<>>)
    ELSE IF NewClientFails(snap)
        THEN [c |-> c, res |-> RenderError("create packet API client", <<>>)]
    ELSE IF DevicesListFails(snap, c.Packet.ProjectID)
        THEN [c |-> c, res |-> RenderError("listing devices in project", <<c.Packet.ProjectID>>)]
    ELSE renderUserdata(c, snap,
                        getWorkerUserdata(c.ClusterName, c.Packet.Facility, snap.devices))

\* (c *component) Metadata() of the cluster-autoscaler
Metadata_ClusterAutoscaler(c) == [Name |-> ClusterAutoscalerName, Namespace |-> c.Namespace]

\* ------------------------------------------------------------------------
\* contour
\* ------------------------------------------------------------------------

ContourName == "contour"
serviceTypeNodePort == "NodePort"
serviceTypeLoadBalancer == "LoadBalancer"

newComponent_Contour ==
    [EnableMonitoring |-> FALSE,
     IngressHosts |-> <<>>,
     NodeAffinity |-> <<>>,
     NodeAffinityRaw |-> <<>>,
     ServiceType |-> serviceTypeLoadBalancer,
     Tolerations |-> <<>>,
     TolerationsRaw |-> <<>>]

ContourAttrs == {"enable_monitoring", "ingress_hosts", "service_type"}

\* a repeated block decoded into a slice field: no block leaves the slice as it
\* is, blocks replace its elements and cut it to their number
DecodeBlocks(old, blocks) == IF blocks = <<>> THEN old ELSE blocks

\* gohcl.DecodeBody(*configBody, evalContext, c) for contour
DecodeBody_Contour(c, body, order) ==
    [c |-> [c EXCEPT
              !.EnableMonitoring = DecodeAttr(@, body.enable_monitoring),
              !.IngressHosts = DecodeAttr(@, body.ingress_hosts),
              !.ServiceType = DecodeAttr(@, body.service_type),
              !.NodeAffinity = DecodeBlocks(@, body.node_affinity),
              !.Tolerations = DecodeBlocks(@, body.toleration)],
     diags |-> ContentDiags(body) \o AttrDiags(order)]

\* components.HCLDiagConfigBodyNil
HCLDiagConfigBodyNil ==
    Diagnostic("Component requires config",
               "Component has a required field but the config is empty")

UnknownServiceTypeDiag(serviceType) ==
    Diagnostic("Unknown service type " \o Quoted(serviceType), "")

\* LoadConfig from the result of gohcl.DecodeBody on: the early return on
\* decode errors, then the check of the service type
loadDecoded_Contour(dec) ==
    IF HasErrors(dec.diags) THEN dec
    ELSE IF /\ dec.c.ServiceType # serviceTypeNodePort
            /\ dec.c.ServiceType # serviceTypeLoadBalancer
        THEN [c |-> dec.c, diags |-> <<UnknownServiceTypeDiag(dec.c.ServiceType)>>]
    ELSE [c |-> dec.c, diags |-> <<>>]

\* (c *component) LoadConfig(configBody, evalContext) of contour
LoadConfig_Contour(c, body, order) ==
    IF body.isNil THEN [c |-> c, diags |-> <<HCLDiagConfigBodyNil>>]
    ELSE loadDecoded_Contour(DecodeBody_Contour(c, body, order))

\* util.RenderTolerations / util.RenderNodeAffinity: the empty string for an
\* empty list, the JSON text of the list otherwise
MarshalList(list) == IF list = <<>> THEN <<>> ELSE <<"json">> \o list

\* internaltemplate.Render(chartValuesTmpl, c): the values the template reads
chartValues_Contour(c) ==
    [EnableMonitoring |-> c.EnableMonitoring,
     IngressHosts |-> c.IngressHosts,
     NodeAffinityRaw |-> c.NodeAffinityRaw,
     ServiceType |-> c.ServiceType,
     TolerationsRaw |-> c.TolerationsRaw]

\* (c *component) Metadata() of contour
Metadata_Contour(c) == [Name |-> ContourName, Namespace |-> "projectcontour"]

\* RenderManifests from "values, err := internaltemplate.Render" on
renderChart_Contour(c, snap) ==
    IF RenderTemplateFails(snap)
        THEN [c |-> c, res |-> RenderError("rendering values template failed", <<>>)]
    ELSE IF RenderChartFails(snap)
        THEN [c |-> c, res |-> RenderError("rendering chart failed", <<>>)]
    ELSE [c |-> c,
          res |-> RenderOk(RenderChart("/components/contour", ContourName,
                                       Metadata_Contour(c).Namespace,
                                       chartValues_Contour(c)),
                           <<>>)]

\* RenderManifests from "c.NodeAffinityRaw, err = util.RenderNodeAffinity" on:
\* the field is assigned what the call returned before the error is looked at
renderAffinity_Contour(c, snap) ==
    IF snap.failing = "affinity"
        THEN [c |-> [c EXCEPT !.NodeAffinityRaw = <<>>],
              res |-> RenderError("failed to marshal node affinity", <<>>)]
    ELSE renderChart_Contour([c EXCEPT !.NodeAffinityRaw = MarshalList(c.NodeAffinity)], snap)

\* (c *component) RenderManifests() of contour
RenderManifests_Contour(c, snap) ==
    IF ~snap.assets THEN [c |-> c, res |-> RenderError("load chart from assets", <<>>)]
    ELSE IF snap.failing = "tolerations"
        THEN [c |-> [c EXCEPT !.TolerationsRaw = <<>>],
              res |-> RenderError("failed to marshal operator tolerations", <<>>)]
    ELSE renderAffinity_Contour([c EXCEPT !.TolerationsRaw = MarshalList(c.Tolerations)], snap)

\* ------------------------------------------------------------------------
\* flatcar-linux-update-operator
\* ------------------------------------------------------------------------

componentName == "flatcar-linux-update-operator"

\* &component{}: a struct without fields
newComponent_Flatcar == [fields |-> {}]

\* (c *component) LoadConfig(configBody, evalContext): every argument of a
\* body is one the empty schema lacks
LoadConfig_Flatcar(c, body) ==
    IF body.isNil THEN [c |-> c, diags |-> <<>>]
    ELSE [c |-> c, diags |-> ContentDiags(body)]

\* (c *component) RenderManifests(): the manifests under the assets directory
RenderManifests_Flatcar(c, snap) ==
    IF ~snap.assets THEN [c |-> c, res |-> RenderError("failed to walk assets", <<>>)]
    ELSE [c |-> c,
          res |-> RenderOk({ [path |-> "/components/flatcar-linux-update-operator/manifests",
                              text |-> "manifests"] },
                           <<>>)]

\* (c *component) Metadata()
Metadata_Flatcar(c) == [Name |-> "", Namespace |-> "reboot-coordinator"]

\* ------------------------------------------------------------------------
\* Inputs
\* ------------------------------------------------------------------------

C1Name == <<"c", "1">>

\* hostnames: a worker of cluster c1, a controller of c1, a worker of c2
WorkerC1 == <<"c", "1", "-", "w", "o", "r", "k", "e", "r">>
ControllerC1 == <<"c", "1", "-", "c", "t", "l">>
WorkerC2 == <<"c", "2", "-", "w", "o", "r", "k", "e", "r">>

Hostnames == {WorkerC1, ControllerC1, WorkerC2}
Facilities == {"ams1", "ewr1"}
UserDatas == {<<>>, <<1>>, <<2>>}

\* packngo.Device, the fields getWorkerUserdata reads
Devices == [Facility : Facilities, Hostname : Hostnames, UserData : UserDatas]

RECURSIVE ListsUpTo(_, _)
ListsUpTo(S, n) ==
    IF n = 0 THEN {<<>>}
    ELSE LET shorter == ListsUpTo(S, n - 1)
         IN  shorter \cup { <<x>> \o l : x \in S, l \in {m \in shorter : Len(m) = n - 1} }

Device(f, h, u) == [Facility |-> f, Hostname |-> h, UserData |-> u]

\* raw durations: well-formed ones and malformed ones
Raw10m == <<"1", "0", "m">>
Raw1h30m == <<"1", "h", "3", "0", "m">>
Raw1p5h == <<"1", ".", "5", "h">>
Raw10minutes == <<"1", "0", " ", "m", "i", "n", "u", "t", "e", "s">>
Raw90 == <<"9", "0">>
RawAbc == <<"a", "b", "c">>

ValidBody_ClusterAutoscaler ==
    [EmptyBody_ClusterAutoscaler EXCEPT
        !.worker_pool = Value("pool"),
        !.cluster_name = Value(C1Name),
        !.packet = [@ EXCEPT !.present = TRUE,
                             !.project_id = Value("p1"),
                             !.facility = Value("ams1")]]

\* the valid body with every combination of the three duration attributes
\* well-formed and malformed, and with one of them alone (the valid body
\* itself has none of them)
DurationBodies ==
    { [ValidBody_ClusterAutoscaler EXCEPT
          !.scale_down_unneeded_time = a,
          !.scale_down_delay_after_add = b,
          !.scale_down_unready_time = u] :
      a \in {Value(Raw10m), Value(Raw10minutes)},
      b \in {Value(Raw1h30m), Value(Raw90)},
      u \in {Value(Raw1p5h), Value(RawAbc)} }
    \cup
    { ValidBody_ClusterAutoscaler,
      [ValidBody_ClusterAutoscaler EXCEPT !.scale_down_delay_after_add = Value(Raw90)] }

\* no body at all, and bodies with other attributes missing, unsuitable or
\* out of their domain
OtherBodies_ClusterAutoscaler ==
    { [EmptyBody_ClusterAutoscaler EXCEPT !.isNil = TRUE],
      EmptyBody_ClusterAutoscaler,
      [ValidBody_ClusterAutoscaler EXCEPT !.provider = Value("aws")],
      [ValidBody_ClusterAutoscaler EXCEPT !.provider = Value("packet"),
                                          !.namespace = Value("autoscaler"),
                                          !.service_monitor = Value(TRUE)],
      [ValidBody_ClusterAutoscaler EXCEPT !.worker_pool = Unsuitable("")],
      [ValidBody_ClusterAutoscaler EXCEPT !.min_workers = Unsuitable(0),
                                          !.max_workers = Unsuitable(0)],
      [ValidBody_ClusterAutoscaler EXCEPT !.cluster_name = Absent(<<>>)],
      [ValidBody_ClusterAutoscaler EXCEPT !.packet.present = FALSE],
      [ValidBody_ClusterAutoscaler EXCEPT !.packet.project_id = Absent("")],
      [ValidBody_ClusterAutoscaler EXCEPT !.packet.facility = Unsuitable(""),
                                          !.packet.worker_type = Unsuitable("")],
      [ValidBody_ClusterAutoscaler EXCEPT !.unsupported = TRUE] }

Bodies_ClusterAutoscaler == DurationBodies \cup OtherBodies_ClusterAutoscaler

EmptyBody_Contour ==
    [isNil |-> FALSE, unsupported |-> FALSE,
     enable_monitoring |-> Absent(FALSE), ingress_hosts |-> Absent(<<>>),
     service_type |-> Absent(""), node_affinity |-> <<>>, toleration |-> <<>>]

Bodies_Contour ==
    { [EmptyBody_Contour EXCEPT !.isNil = TRUE] }
    \cup
    { [EmptyBody_Contour EXCEPT !.unsupported = x,
                                !.enable_monitoring = m,
                                !.service_type = t,
                                !.toleration = tol] :
      x \in BOOLEAN,
      m \in {Absent(FALSE), Value(TRUE), Unsuitable(FALSE)},
      t \in {Absent(""), Value(serviceTypeNodePort), Value("ClusterIP"), Unsuitable("")},
      tol \in {<<>>, <<[key |-> "k", effect |-> "NoSchedule"]>>} }

Bodies_Flatcar ==
    { [isNil |-> TRUE, unsupported |-> FALSE],
      [isNil |-> FALSE, unsupported |-> FALSE],
      [isNil |-> FALSE, unsupported |-> TRUE] }

\* snapshots of the collaborators
GoodSnapshot ==
    [assets |-> TRUE, failing |-> "", token |-> <<116>>, project |-> "p1",
     devices |-> << Device("ewr1", WorkerC1, <<9>>),
                    Device("ams1", ControllerC1, <<3>>),
                    Device("ams1", WorkerC1, <<1>>) >>]

Snapshots ==
    { GoodSnapshot,
      [GoodSnapshot EXCEPT !.devices = << Device("ams1", WorkerC1, <<2>>) >>],
      [GoodSnapshot EXCEPT !.devices = << Device("ams1", WorkerC1, <<1>>),
                                          Device("ams1", WorkerC1, <<1>>) >>],
      [GoodSnapshot EXCEPT !.devices = <<>>],
      [GoodSnapshot EXCEPT !.token = <<>>],
      [GoodSnapshot EXCEPT !.project = "p2"],
      [GoodSnapshot EXCEPT !.assets = FALSE] }

\* the snapshots in which a step of rendering fails
Failing(steps) == { [GoodSnapshot EXCEPT !.failing = step] : step \in steps }

Snapshots_ClusterAutoscaler == Snapshots \cup Failing({"template", "chart"})

\* contour and the update operator read the assets only
Snapshots_Contour ==
    { GoodSnapshot, [GoodSnapshot EXCEPT !.assets = FALSE] }
    \cup Failing({"tolerations", "affinity", "template", "chart"})

Snapshots_Flatcar == { GoodSnapshot, [GoodSnapshot EXCEPT !.assets = FALSE] }

\* ------------------------------------------------------------------------
\* dns: fmt.Scanln, net.IP.String, sort.Strings, checkDNSEntries
\* ------------------------------------------------------------------------

\* longest list of DNS entries read from the Terraform output
MaxEntries == 2

Newline == "\n"
SkipWord == <<"s", "k", "i", "p">>

\* the space characters of a typed line (the newline is handled on its own)
isSpace(ch) == ch \in {" ", "\t", "\r"}

\* ss.SkipSpace of a Scanln call: spaces are consumed; a newline is consumed
\* and ends the scan ("unexpected newline"); the end of the input ends it too
RECURSIVE SkipSpace(_)
SkipSpace(s) ==
    IF s = <<>> THEN [stop |-> TRUE, rest |-> <<>>]
    ELSE IF Head(s) = Newline THEN [stop |-> TRUE, rest |-> Tail(s)]
    ELSE IF isSpace(Head(s)) THEN SkipSpace(Tail(s))
    ELSE [stop |-> FALSE, rest |-> s]

\* ss.token(true, notSpace): the characters up to the next space or newline
RECURSIVE tokenLength(_)
tokenLength(s) ==
    IF s = <<>> \/ Head(s) = Newline \/ isSpace(Head(s)) THEN 0
    ELSE 1 + tokenLength(Tail(s))

\* the end of doScan for Scanln: spaces are consumed up to the newline, which
\* is consumed; a character that is no space is consumed too and is the
\* "expected newline" error
RECURSIVE expectNewline(_)
expectNewline(s) ==
    IF s = <<>> THEN <<>>
    ELSE IF isSpace(Head(s)) THEN expectNewline(Tail(s))
    ELSE Tail(s)

scanToken(s, n) == [input |-> SubSeq(s, 1, n), rest |-> expectNewline(SubSeq(s, n + 1, Len(s)))]

scanAfterSpace(sk) ==
    IF sk.stop THEN [input |-> <<>>, rest |-> sk.rest]
    ELSE scanToken(sk.rest, tokenLength(sk.rest))

\* var input string; fmt.Scanln(&input) on the characters waiting on the
\* standard input: the word stored in input (empty on an error before the
\* word) and the characters left for the next read
Scanln(stdin) == scanAfterSpace(SkipSpace(stdin))

\* strconv of an octet, for net.IP.String of an IPv4 address
RECURSIVE Itoa(_)
Itoa(n) == IF n < 10 THEN <<Digits[n + 1]>> ELSE Itoa(n \div 10) \o <<Digits[(n % 10) + 1]>>

\* ip.String() of a four-octet address: dotted decimal
IPString(ip) == Itoa(ip[1]) \o <<".">> \o Itoa(ip[2]) \o <<".">> \o Itoa(ip[3])
                \o <<".">> \o Itoa(ip[4])

\* the strings of the addresses, in the order the resolver gave them
ipsString(ips) == [k \in 1..Len(ips) |-> IPString(ips[k])]

\* the byte of a character of a record
CharCode(ch) == IF ch = "." THEN 46 ELSE 48 + DigitValue(ch)

\* a < b for Go strings: byte-wise, a proper prefix first
RECURSIVE StringLess(_, _)
StringLess(a, b) ==
    IF b = <<>> THEN FALSE
    ELSE IF a = <<>> THEN TRUE
    ELSE IF CharCode(Head(a)) # CharCode(Head(b)) THEN CharCode(Head(a)) < CharCode(Head(b))
    ELSE StringLess(Tail(a), Tail(b))

\* x put into the sorted list l
RECURSIVE sortInsert(_, _)
sortInsert(x, l) ==
    IF l = <<>> THEN <<x>>
    ELSE IF StringLess(Head(l), x) THEN <<Head(l)>> \o sortInsert(x, Tail(l))
    ELSE <<x>> \o l

\* sort.Strings(l): l in increasing order
RECURSIVE SortStrings(_)
SortStrings(l) == IF l = <<>> THEN <<>> ELSE sortInsert(Head(l), SortStrings(Tail(l)))

\* net.LookupIP(name): an error, or the addresses of the name (at least one)
LookupError == [err |-> TRUE, ips |-> <<>>]
LookupOk(ips) == [err |-> FALSE, ips |-> ips]

\* checkDNSEntries with the lists compared as they come, unsorted
checkEntry_Unsorted(entries, k, answer) ==
    IF answer.err THEN [ok |-> FALSE, entries |-> entries]
    ELSE [ok |-> ipsString(answer.ips) = entries[k].Records, entries |-> entries]

\* one iteration of the loop of checkDNSEntries on entry k, given the answer
\* of net.LookupIP: sort.Strings(entry.Records) sorts the records of the
\* entry in place, reflect.DeepEqual compares them with the sorted addresses
checkEntry(entries, k, answer) ==
    IF answer.err THEN [ok |-> FALSE, entries |-> entries]
    ELSE [ok |-> SortStrings(ipsString(answer.ips)) = SortStrings(entries[k].Records),
          entries |-> [entries EXCEPT ![k].Records = SortStrings(@)]]

\* the loop from entry k on: the first failure returns false
RECURSIVE checkFrom(_, _, _)
checkNext(r, k, resolver) == IF r.ok THEN checkFrom(r.entries, k + 1, resolver) ELSE r

checkFrom(entries, k, resolver) ==
    IF k > Len(entries) THEN [ok |-> TRUE, entries |-> entries]
    ELSE checkNext(checkEntry(entries, k, resolver[entries[k].Name]), k, resolver)

\* checkDNSEntries(entries) against a resolver
checkDNSEntries(entries, resolver) == checkFrom(entries, 1, resolver)

\* ------------------------------------------------------------------------
\* State
\* ------------------------------------------------------------------------

VARIABLES
    name,     \* the registered component a behaviour follows
    c,        \* the fields of that component
    last,     \* the last call on the component: operation, input, output
    everOK,   \* a LoadConfig call has returned no error diagnostic
    ud,       \* a call of getWorkerUserdata: its arguments and its result
    dns       \* a run of AskToConfigure: its position, its entries, its input

vars == <<name, c, last, everOK, ud, dns>>

ComponentNames == {ClusterAutoscalerName, ContourName, componentName}

newComponent(n) ==
    IF n = ClusterAutoscalerName THEN newComponent_ClusterAutoscaler
    ELSE IF n = ContourName THEN newComponent_Contour
    ELSE newComponent_Flatcar

\* rep: the call repeats the call before it (same operation, same input);
\* fresh: the call ran on the component as newComponent left it
NoCall == [op |-> "new", input |-> <<>>, diags |-> <<>>, res |-> RenderOk({}, <<>>),
           meta |-> <<>>, rep |-> FALSE, fresh |-> TRUE]

NoUd == [clusterName |-> <<>>, facility |-> "", devices |-> <<>>, called |-> FALSE,
         ret |-> [userData |-> <<>>, err |-> NoError]]

\* the names of the DNS entries, by their place in the Terraform output
EntryNames == <<"api", "etcd", "ingress">>
Names == {EntryNames[k] : k \in 1..MaxEntries}

\* AskToConfigure before its call.  pc: "start", "loop" (at the top of the
\* for loop) or "done" (returned); stdin: the characters typed and not read
\* yet; closed: the standard input is at its end; input: the word of the last
\* Scanln; checked, resolver, matched: whether the last iteration called
\* checkDNSEntries, the answers of net.LookupIP it met, and what it returned;
\* out: the lines printed by the last step; ret: the error returned; zone:
\* the zone AskToConfigure is called with;
\* rejected: an earlier check has returned false
NoDns == [pc |-> "start", zone |-> "", entries |-> <<>>, stdin |-> <<>>, closed |-> FALSE,
          input |-> <<>>, checked |-> FALSE,
          resolver |-> [n \in Names |-> LookupError], matched |-> FALSE,
          out |-> <<>>, ret |-> "", rejected |-> FALSE]

\* components.Register(name, newComponent()) in init()
Init ==
    /\ name \in ComponentNames
    /\ c = newComponent(name)
    /\ last = NoCall
    /\ everOK = FALSE
    /\ ud = NoUd
    /\ dns = NoDns

Loaded(body, r) ==
    /\ c' = r.c
    /\ last' = [op |-> "LoadConfig", input |-> body, diags |-> r.diags,
                res |-> RenderOk({}, <<>>), meta |-> <<>>,
                rep |-> last.op = "LoadConfig" /\ last.input = body,
                fresh |-> c = newComponent(name)]
    /\ everOK' = (everOK \/ ~HasErrors(r.diags))
    /\ UNCHANGED <<name, ud, dns>>

Rendered(snap, r) ==
    /\ c' = r.c
    /\ last' = [op |-> "RenderManifests", input |-> snap, diags |-> <<>>,
                res |-> r.res, meta |-> <<>>,
                rep |-> last.op = "RenderManifests" /\ last.input = snap,
                fresh |-> c = newComponent(name)]
    /\ UNCHANGED <<name, everOK, ud, dns>>

Described(m) ==
    /\ last' = [op |-> "Metadata", input |-> <<>>, diags |-> <<>>,
                res |-> RenderOk({}, <<>>), meta |-> m, rep |-> last.op = "Metadata",
                fresh |-> c = newComponent(name)]
    /\ UNCHANGED <<name, c, everOK, ud, dns>>

\* the attributes of a body that do not convert: none for a nil body, which
\* is decoded as the empty body
BadTop(body) == IF body.isNil THEN {} ELSE BadAttrs(body, ClusterAutoscalerAttrs)
BadPacket(body) ==
    IF body.isNil \/ ~body.packet.present THEN {} ELSE BadAttrs(body.packet, PacketAttrs)

Call_LoadConfig_ClusterAutoscaler ==
    /\ name = ClusterAutoscalerName
    /\ \E body \in Bodies_ClusterAutoscaler :
         \E order \in Orders(BadTop(body)), packetOrder \in Orders(BadPacket(body)) :
            Loaded(body, LoadConfig_ClusterAutoscaler(c, body, order, packetOrder))

Call_RenderManifests_ClusterAutoscaler ==
    /\ name = ClusterAutoscalerName
    /\ \E snap \in Snapshots_ClusterAutoscaler :
         Rendered(snap, RenderManifests_ClusterAutoscaler(c, snap))

Call_Metadata_ClusterAutoscaler ==
    /\ name = ClusterAutoscalerName
    /\ Described(Metadata_ClusterAutoscaler(c))

Call_LoadConfig_Contour ==
    /\ name = ContourName
    /\ \E body \in Bodies_Contour :
         \E order \in Orders(IF body.isNil THEN {} ELSE BadAttrs(body, ContourAttrs)) :
            Loaded(body, LoadConfig_Contour(c, body, order))

Call_RenderManifests_Contour ==
    /\ name = ContourName
    /\ \E snap \in Snapshots_Contour : Rendered(snap, RenderManifests_Contour(c, snap))

Call_Metadata_Contour ==
    /\ name = ContourName
    /\ Described(Metadata_Contour(c))

Call_LoadConfig_Flatcar ==
    /\ name = componentName
    /\ \E body \in Bodies_Flatcar : Loaded(body, LoadConfig_Flatcar(c, body))

Call_RenderManifests_Flatcar ==
    /\ name = componentName
    /\ \E snap \in Snapshots_Flatcar : Rendered(snap, RenderManifests_Flatcar(c, snap))

Call_Metadata_Flatcar ==
    /\ name = componentName
    /\ Described(Metadata_Flatcar(c))

Next ==
    \/ Call_LoadConfig_ClusterAutoscaler
    \/ Call_RenderManifests_ClusterAutoscaler
    \/ Call_Metadata_ClusterAutoscaler
    \/ Call_LoadConfig_Contour
    \/ Call_RenderManifests_Contour
    \/ Call_Metadata_Contour
    \/ Call_LoadConfig_Flatcar
    \/ Call_RenderManifests_Flatcar
    \/ Call_Metadata_Flatcar

Spec == Init /\ [][Next]_vars

\* ------------------------------------------------------------------------
\* getWorkerUserdata on its own: any cluster name, any list of devices
\* ------------------------------------------------------------------------

ClusterNames == {C1Name, <<>>}
TargetFacility == "ams1"

InitUD ==
    /\ name = ClusterAutoscalerName
    /\ c = newComponent(name)
    /\ last = NoCall
    /\ everOK = FALSE
    /\ \E cn \in ClusterNames, devs \in ListsUpTo(Devices, MaxDevices) :
         ud = [NoUd EXCEPT !.clusterName = cn, !.facility = TargetFacility,
                           !.devices = devs]
    /\ dns = NoDns

Call_getWorkerUserdata ==
    /\ ~ud.called
    /\ ud' = [ud EXCEPT !.called = TRUE,
                        !.ret = getWorkerUserdata(ud.clusterName, ud.facility, ud.devices)]
    /\ UNCHANGED <<name, c, last, everOK, dns>>

NextUD == Call_getWorkerUserdata

SpecUD == InitUD /\ [][NextUD]_vars

\* ------------------------------------------------------------------------
\* AskToConfigure on its own: any entries, any typed lines, any resolver
\* ------------------------------------------------------------------------

\* addresses a resolver answers with, and records as the Terraform output
\* writes them
IPA == <<1, 2, 3, 4>>
IPB == <<5, 6, 7, 8>>
RecordA == <<"1", ".", "2", ".", "3", ".", "4">>
RecordB == <<"5", ".", "6", ".", "7", ".", "8">>

RecordLists ==
    { <<>>, <<RecordA>>, <<RecordA, RecordB>>, <<RecordB, RecordA>>, <<RecordA, RecordA>> }

Answers ==
    { LookupError, LookupOk(<<IPA>>), LookupOk(<<IPB>>), LookupOk(<<IPB, IPA>>) }

\* what net.LookupIP answers for each name during one check
Resolvers == [Names -> Answers]

\* dnsEntry; the k-th entry of a list has the k-th name, the type and the
\* time to live are those of an address record
dnsEntry(entryName, records) ==
    [Name |-> entryName, Ttl |-> <<"3", "0", "0">>, EntryType |-> "A", Records |-> records]

RECURSIVE EntryListsOf(_)
EntryListsOf(n) ==
    IF n = 0 THEN {<<>>}
    ELSE { l \o <<dnsEntry(EntryNames[n], r)>> :
             l \in EntryListsOf(n - 1), r \in RecordLists }

EntryLists == UNION {EntryListsOf(n) : n \in 0..MaxEntries}

\* lines the operator types, each ended by Enter; the empty sequence stands
\* for the end of the standard input
Lines ==
    { <<Newline>>,
      <<"s", "k", "i", "p", Newline>>,
      <<"x", Newline>>,
      <<" ", "s", "k", "i", "p", Newline>>,
      <<"s", "k", "i", "p", " ", "x", Newline>>,
      <<"x", " ", "y", Newline>> }

EndOfInput == <<>>

Zones == {"example.com"}

ConfigureMsg(zone) ==
    "Please configure the following DNS entries at the DNS provider which hosts "
    \o Quoted(zone) \o ":"
DashesMsg == "------------------------------------------------------------------------"
PromptMsg == "Press Enter to check the entries or type \"skip\" to continue the installation: "
NotConfiguredMsg == "Entries are not correctly configured, please verify."

InitDNS ==
    /\ name = ClusterAutoscalerName
    /\ c = newComponent(name)
    /\ last = NoCall
    /\ everOK = FALSE
    /\ ud = NoUd
    /\ \E e \in EntryLists, zone \in Zones :
         dns = [NoDns EXCEPT !.entries = e, !.zone = zone]

\* readDNSEntries(ex): the Terraform output, or the error of the command or
\* of json.Unmarshal
readDNSEntries(d, outcome) ==
    IF outcome = "ok" THEN [entries |-> d.entries, err |-> ""]
    ELSE IF outcome = "exec" THEN [entries |-> <<>>, err |-> "failed to get DNS entries"]
    ELSE [entries |-> <<>>, err |-> "failed to parse DNS entries file"]

\* the lines "- record" of an entry
printRecords(records) == [k \in 1..Len(records) |-> "- " \o StringOf(records[k])]

\* the lines prettyPrintDNSEntries prints for one entry
printEntry(entry) ==
    << "Name: " \o entry.Name, "Type: " \o entry.EntryType,
       "Ttl: " \o StringOf(entry.Ttl), "Records:" >>
    \o printRecords(entry.Records) \o <<DashesMsg>>

RECURSIVE printEntries(_)
printEntries(entries) ==
    IF entries = <<>> THEN <<>>
    ELSE printEntry(Head(entries)) \o printEntries(Tail(entries))

\* prettyPrintDNSEntries(entries): the lines printed
prettyPrintDNSEntries(entries) == <<DashesMsg>> \o printEntries(entries)

\* AskToConfigure up to the loop
askStart(d, r) ==
    IF r.err # "" THEN [d EXCEPT !.pc = "done", !.ret = r.err]
    ELSE [d EXCEPT !.pc = "loop",
                   !.out = <<ConfigureMsg(d.zone)>> \o prettyPrintDNSEntries(r.entries)]

AskToConfigure_Start ==
    /\ dns.pc = "start"
    /\ \E outcome \in {"ok", "exec", "parse"} :
         dns' = askStart(dns, readDNSEntries(dns, outcome))
    /\ UNCHANGED <<name, c, last, everOK, ud>>

\* the iteration from "if checkDNSEntries(dnsEntries)" on, r being the result
\* of the check
askChecked(d, r) ==
    IF r.ok THEN [d EXCEPT !.pc = "done", !.entries = r.entries, !.matched = TRUE]
    ELSE [d EXCEPT !.entries = r.entries, !.out = <<PromptMsg, NotConfiguredMsg>>,
                   !.rejected = TRUE]

\* the iteration from "if input == "skip"" on
askInput(d, resolver) ==
    IF d.input = SkipWord THEN [d EXCEPT !.pc = "done"]
    ELSE IF d.input # <<>> THEN d
    ELSE askChecked([d EXCEPT !.checked = TRUE, !.resolver = resolver],
                    checkDNSEntries(d.entries, resolver))

\* one iteration of the for loop: the prompt, Scanln, the branches
askIteration(d, sc, closed, resolver) ==
    askInput([d EXCEPT !.out = <<PromptMsg>>, !.input = sc.input, !.stdin = sc.rest,
                       !.closed = closed, !.checked = FALSE, !.matched = FALSE,
                       !.resolver = NoDns.resolver],
             resolver)

\* the resolvers an iteration can meet: it looks names up only when the
\* word read is empty
ResolversFor(sc) == IF sc.input = <<>> THEN Resolvers ELSE {NoDns.resolver}

\* the characters Scanln reads from: those waiting, or the line typed when
\* none waits
Waiting(d, line) == IF d.stdin # <<>> \/ d.closed THEN d.stdin ELSE line

\* what the operator can type during an iteration: nothing is asked of the
\* operator while characters wait or after the end of the input
Typed(d) == IF d.stdin # <<>> \/ d.closed THEN {EndOfInput} ELSE Lines \cup {EndOfInput}

\* Scanln reads what waits on the standard input; when nothing waits it
\* blocks until the operator types a line or ends the input
AskToConfigure_Loop ==
    /\ dns.pc = "loop"
    /\ \E line \in Typed(dns) :
         \E resolver \in ResolversFor(Scanln(Waiting(dns, line))) :
            dns' = askIteration(dns, Scanln(Waiting(dns, line)),
                                dns.closed \/ (dns.stdin = <<>> /\ line = EndOfInput),
                                resolver)
    /\ UNCHANGED <<name, c, last, everOK, ud>>

NextDNS ==
    \/ AskToConfigure_Start
    \/ AskToConfigure_Loop

SpecDNS == InitDNS /\ [][NextDNS]_vars

\* ------------------------------------------------------------------------
\* Properties of getWorkerUserdata (under SpecUD)
\* ------------------------------------------------------------------------

\* two devices of the facility have the same hostname
DuplicateInFacility(devices, facility) ==
    \E i, j \in 1..Len(devices) :
        /\ i < j
        /\ devices[i].Facility = facility
        /\ devices[j].Facility = facility
        /\ devices[i].Hostname = devices[j].Hostname

\* d is a worker of the cluster in the facility
IsWorkerOf(d, clusterName, facility) ==
    /\ d.Facility = facility
    /\ Contains(d.Hostname, clusterName)
    /\ Contains(d.Hostname, WorkerMarker)

DuplicateKind == "two devices with the same name"

\* C4: when two devices of the target facility share a hostname,
\* getWorkerUserdata returns the empty string and the duplicate-name error,
\* naming a hostname that two devices of the facility have, wherever the
\* duplicates stand and whatever came before them; and it returns that
\* error only then, so devices of other facilities never make a collision.
C4_DuplicateHostnameFails ==
    ud.called =>
        /\ DuplicateInFacility(ud.devices, ud.facility) =>
             /\ ud.ret.userData = <<>>
             /\ ud.ret.err.kind = DuplicateKind
             /\ \E i, j \in 1..Len(ud.devices) :
                  /\ i < j
                  /\ ud.devices[i].Facility = ud.facility
                  /\ ud.devices[j].Facility = ud.facility
                  /\ ud.devices[i].Hostname = ud.ret.err.names
                  /\ ud.devices[j].Hostname = ud.ret.err.names
        /\ ud.ret.err.kind = DuplicateKind =>
             DuplicateInFacility(ud.devices, ud.facility)

\* a worker with user data comes first, two devices of the facility with
\* another hostname follow: the call has returned the duplicate-name error
C4_Witness ==
    /\ ud.called
    /\ Len(ud.devices) = 3
    /\ IsWorkerOf(ud.devices[1], ud.clusterName, ud.facility)
    /\ ud.devices[1].UserData # <<>>
    /\ ud.devices[2].Facility = ud.facility
    /\ ud.devices[3].Facility = ud.facility
    /\ ud.devices[2].Hostname = ud.devices[3].Hostname
    /\ ud.devices[2].Hostname # ud.devices[1].Hostname
    /\ ud.ret.err.kind = DuplicateKind

\* C5: when no device of the target facility is a worker of the cluster and
\* no two devices of the facility share a hostname, getWorkerUserdata
\* returns the empty string and the no-worker error naming the cluster;
\* workers of the cluster in other facilities do not count.
C5_NoWorkerFails ==
    ( /\ ud.called
      /\ ~DuplicateInFacility(ud.devices, ud.facility)
      /\ \A k \in 1..Len(ud.devices) :
            ~IsWorkerOf(ud.devices[k], ud.clusterName, ud.facility) )
    => /\ ud.ret.userData = <<>>
       /\ ud.ret.err = NoWorkerError(ud.clusterName)

\* the list has a worker of the cluster with user data in another facility
\* and a device of the target facility that is no worker
C5_Witness ==
    /\ ud.called
    /\ ud.clusterName = C1Name
    /\ ~DuplicateInFacility(ud.devices, ud.facility)
    /\ \A k \in 1..Len(ud.devices) :
          ~IsWorkerOf(ud.devices[k], ud.clusterName, ud.facility)
    /\ \E k \in 1..Len(ud.devices) :
          /\ ud.devices[k].Facility # ud.facility
          /\ IsWorkerOf(ud.devices[k], ud.clusterName, ud.devices[k].Facility)
          /\ ud.devices[k].UserData # <<>>
    /\ \E k \in 1..Len(ud.devices) : ud.devices[k].Facility = ud.facility
    /\ ud.ret.err = NoWorkerError(C1Name)

\* ------------------------------------------------------------------------
\* Properties of LoadConfig, RenderManifests and Metadata (under Spec)
\* ------------------------------------------------------------------------

Summaries(diags) == [k \in 1..Len(diags) |-> diags[k].Summary]

NilLoad(n) == name = n /\ last.op = "LoadConfig" /\ last.input.isNil

\* C1 as claimed: LoadConfig of the cluster-autoscaler with a nil body
\* returns exactly one diagnostic.
C1_NilConfigOneDiagnostic ==
    NilLoad(ClusterAutoscalerName) => Len(last.diags) = 1

\* C1, amended: LoadConfig of the cluster-autoscaler with a nil body returns
\* at least one diagnostic, all of error severity, the first of which is
\* "component requires configuration"; it then decodes the empty body and
\* runs the required-field checks, so that on a new component the
\* diagnostics of project_id, facility, worker_pool and cluster_name follow
\* it (five diagnostics).
C1_NilConfigReported ==
    NilLoad(ClusterAutoscalerName) =>
        /\ Len(last.diags) >= 1
        /\ last.diags[1] = ConfigAbsentDiag
        /\ \A k \in 1..Len(last.diags) : last.diags[k].Severity = DiagError
        /\ last.fresh =>
             Summaries(last.diags) =
                 << "component requires configuration",
                    "'project_id' must be set",
                    "'facility' must be set",
                    "'worker_pool' must be set",
                    "'cluster_name' must be set" >>

\* LoadConfig(nil) has returned on a new cluster-autoscaler
C1_Witness ==
    /\ NilLoad(ClusterAutoscalerName)
    /\ last.fresh
    /\ Len(last.diags) = 5

\* raw durations by what they denote, written down independently of
\* ParseDuration
WellFormedRaws == {Raw10m, Raw1h30m, Raw1p5h}
MalformedRaws == {Raw10minutes, Raw90, RawAbc}

Denotation(raw) ==
    IF raw = Raw10m THEN Minutes(10)
    ELSE IF raw = Raw1h30m THEN Minutes(90)
    ELSE Seconds(5400)

DurationFields ==
    { [attr |-> "scale_down_unneeded_time", field |-> "ScaleDownUnneededTime"],
      [attr |-> "scale_down_delay_after_add", field |-> "ScaleDownDelayAfterAdd"],
      [attr |-> "scale_down_unready_time", field |-> "ScaleDownUnreadyTime"] }

Count(b) == IF b THEN 1 ELSE 0

\* is the attribute written with a value that converts
Written(attr) == attr.set /\ attr.ok

\* the field-level violations of a body given to a new component, each field
\* counted once: arguments the schema lacks, values that do not convert,
\* malformed durations, a provider or service type out of its domain,
\* required fields that are not written
Violations_ClusterAutoscaler(body) ==
    Count(body.unsupported)
    + Cardinality(BadAttrs(body, ClusterAutoscalerAttrs))
    + (IF body.packet.present THEN Cardinality(BadAttrs(body.packet, PacketAttrs)) ELSE 0)
    + Cardinality({f \in DurationFields :
                      Written(body[f.attr]) /\ body[f.attr].val \in MalformedRaws})
    + Count(Written(body.provider) /\ body.provider.val # "packet")
    + Count(~body.worker_pool.set)
    + Count(~body.cluster_name.set)
    + (IF Written(body.provider) /\ body.provider.val # "packet" THEN 0
       ELSE Count(~body.packet.present \/ ~body.packet.project_id.set)
            + Count(~body.packet.present \/ ~body.packet.facility.set))

Violations_Contour(body) ==
    Count(body.unsupported)
    + Cardinality(BadAttrs(body, ContourAttrs))
    + Count(/\ Written(body.service_type)
            /\ body.service_type.val \notin {serviceTypeNodePort, serviceTypeLoadBalancer})

Violations(n, body) ==
    IF n = ClusterAutoscalerName THEN Violations_ClusterAutoscaler(body)
    ELSE IF n = ContourName THEN Violations_Contour(body)
    ELSE Count(body.unsupported)

\* the violations of the body are independent of each other: no required
\* field is written with a value that does not convert (such a field would
\* be a decode violation and a missing field at once)
Independent(n, body) ==
    n = ClusterAutoscalerName =>
        /\ BadAttrs(body, {"provider", "worker_pool", "cluster_name"}) = {}
        /\ body.packet.present => BadAttrs(body.packet, {"project_id", "facility"}) = {}

\* C2 as claimed: a LoadConfig call on a new component returns as many
\* diagnostics as the body has independent field-level violations, for
\* every component: no check is skipped because of an earlier diagnostic.
C2_OneDiagnosticPerViolation ==
    ( /\ last.op = "LoadConfig"
      /\ last.fresh
      /\ ~last.input.isNil
      /\ Independent(name, last.input) )
    => Len(last.diags) = Violations(name, last.input)

\* C3 as claimed: LoadConfig with a nil body on a new contour or
\* flatcar-linux-update-operator component returns no diagnostic and leaves
\* the component as newComponent made it.
C3_NilConfigNoDiagnostic ==
    ((NilLoad(ContourName) \/ NilLoad(componentName)) /\ last.fresh) =>
        /\ last.diags = <<>>
        /\ c = newComponent(name)

\* the manifests of the component as newComponent made it
DefaultManifests(n) ==
    IF n = ClusterAutoscalerName
        THEN renderChart_ClusterAutoscaler(newComponent_ClusterAutoscaler, GoodSnapshot,
                                           <<>>).res.manifests
    ELSE IF n = ContourName
        THEN renderChart_Contour(newComponent_Contour, GoodSnapshot).res.manifests
    ELSE RenderManifests_Flatcar(newComponent_Flatcar, GoodSnapshot).res.manifests

\* C6 as claimed: a RenderManifests call before any LoadConfig call that
\* returned no error diagnostic returns an error or the manifests of the
\* default configuration, and lists no devices of the inventory.
C6_RenderNeedsLoadedConfig ==
    (last.op = "RenderManifests" /\ ~everOK) =>
        /\ last.res.err # "" \/ last.res.manifests = DefaultManifests(name)
        /\ last.res.listed = <<>>

\* C7 as claimed: a RenderManifests call and a Metadata call leave every
\* field of the component as it was.
C7_OnlyLoadConfigWrites ==
    [][last'.op \in {"RenderManifests", "Metadata"} => c' = c]_vars

\* C8: a LoadConfig call that repeats the call before it (same body), when
\* that call returned no error diagnostic, leaves the component as the first
\* call left it and returns the same diagnostics.
C8_LoadConfigIdempotent ==
    [][ ( /\ last.op = "LoadConfig"
          /\ last'.op = "LoadConfig"
          /\ last'.input = last.input
          /\ ~HasErrors(last.diags) )
        => (c' = c /\ last'.diags = last.diags) ]_vars

\* LoadConfig has been called twice in a row with a valid body that sets
\* the three durations
C8_Witness ==
    /\ name = ClusterAutoscalerName
    /\ last.op = "LoadConfig"
    /\ last.rep
    /\ ~HasErrors(last.diags)
    /\ c.ScaleDownUnneededTimeRaw # <<>>
    /\ c.ScaleDownUnreadyTime = Seconds(5400)

\* C9: a RenderManifests call that repeats the call before it (same
\* snapshot of assets, token and inventory) returns what that call returned,
\* error or manifests, although it runs on the fields the first call wrote.
C9_RenderDeterministic ==
    [][ ( /\ last.op = "RenderManifests"
          /\ last'.op = "RenderManifests"
          /\ last'.input = last.input )
        => last'.res = last.res ]_vars

\* RenderManifests of a validated cluster-autoscaler has been called twice
\* in a row on one snapshot and has returned manifests
C9_Witness ==
    /\ name = ClusterAutoscalerName
    /\ everOK
    /\ last.op = "RenderManifests"
    /\ last.rep
    /\ last.res.err = ""
    /\ last.res.manifests # {}
    /\ c.Packet.UserData # <<>>

\* C10: after a LoadConfig call of the cluster-autoscaler, for each of the
\* three duration attributes the body writes with a non-empty string: a
\* well-formed string has set the parsed field to the duration it denotes and
\* no diagnostic names the attribute; a malformed string has an error
\* diagnostic naming the attribute; and this holds for the three attributes
\* together, whichever of them failed.
C10_DurationsParsed ==
    (name = ClusterAutoscalerName /\ last.op = "LoadConfig" /\ ~last.input.isNil) =>
        \A f \in DurationFields :
            (Written(last.input[f.attr]) /\ last.input[f.attr].val # <<>>) =>
                /\ last.input[f.attr].val \in WellFormedRaws =>
                     /\ c[f.field] = Denotation(last.input[f.attr].val)
                     /\ \A k \in 1..Len(last.diags) :
                          last.diags[k].Summary # "error parsing '" \o f.attr \o "'"
                /\ last.input[f.attr].val \in MalformedRaws =>
                     \E k \in 1..Len(last.diags) :
                        /\ last.diags[k].Severity = DiagError
                        /\ last.diags[k].Summary = "error parsing '" \o f.attr \o "'"

\* a body with the first and the third duration malformed and the second
\* well-formed has been loaded
C10_Witness ==
    /\ name = ClusterAutoscalerName
    /\ last.op = "LoadConfig"
    /\ ~last.input.isNil
    /\ last.input.scale_down_unneeded_time = Value(Raw10minutes)
    /\ last.input.scale_down_delay_after_add = Value(Raw1h30m)
    /\ last.input.scale_down_unready_time = Value(RawAbc)
    /\ c.ScaleDownDelayAfterAdd = Minutes(90)
    /\ Len(last.diags) = 2

\* ------------------------------------------------------------------------
\* The result of getWorkerUserdata on success (under SpecUD)
\* ------------------------------------------------------------------------

\* the positions of the workers of the cluster in the facility
WorkerPositions(devices, clusterName, facility) ==
    {k \in 1..Len(devices) : IsWorkerOf(devices[k], clusterName, facility)}

\* the last of them in list order
LastWorker(devices, clusterName, facility) ==
    devices[CHOOSE k \in WorkerPositions(devices, clusterName, facility) :
                \A m \in WorkerPositions(devices, clusterName, facility) : m <= k]

\* C12 as claimed: when the facility has no two devices with the same
\* hostname and has a worker of the cluster, getWorkerUserdata returns no
\* error and the base64 encoding of the user data of the last worker in list
\* order, whatever that user data is, the empty string included.
C12_LastWorkerUserdataReturned ==
    ( /\ ud.called
      /\ ~DuplicateInFacility(ud.devices, ud.facility)
      /\ WorkerPositions(ud.devices, ud.clusterName, ud.facility) # {} )
    => /\ ud.ret.err = NoError
       /\ ud.ret.userData =
            EncodeToString(LastWorker(ud.devices, ud.clusterName, ud.facility).UserData)

\* ------------------------------------------------------------------------
\* The confirmation loop of AskToConfigure (under SpecDNS)
\* ------------------------------------------------------------------------

\* an address as the Terraform output writes it, written down independently
\* of IPString
Text(ip) == IF ip = IPA THEN RecordA ELSE RecordB

Occurrences(x, l) == Cardinality({k \in 1..Len(l) : l[k] = x})

\* the addresses are the records, irrespective of order
SameValues(ips, records) ==
    \A x \in {Text(ips[k]) : k \in 1..Len(ips)} \cup {records[k] : k \in 1..Len(records)} :
        Occurrences(x, [k \in 1..Len(ips) |-> Text(ips[k])]) = Occurrences(x, records)

\* every entry resolves, to its records
AllResolve(entries, resolver) ==
    \A k \in 1..Len(entries) :
        /\ ~resolver[entries[k].Name].err
        /\ SameValues(resolver[entries[k].Name].ips, entries[k].Records)

\* C11: an iteration of the confirmation loop ends the loop exactly when the
\* word read is "skip", or the word read is empty and every entry resolves
\* to its records irrespective of order; AskToConfigure then returns nil.  An
\* empty word and only an empty word makes the iteration check the entries;
\* a check that meets a lookup error or a mismatch prints the not-configured
\* message and the loop goes on to its prompt; any other word goes on to the
\* prompt without a check and without a message.  Nothing else ends the
\* loop: it has no count of iterations and no timeout.
C11_LoopEndsOnSkipOrMatch ==
    [][ dns.pc = "loop" =>
          /\ dns'.pc \in {"loop", "done"}
          /\ dns'.pc = "done" <=>
                \/ dns'.input = SkipWord
                \/ dns'.input = <<>> /\ AllResolve(dns.entries, dns'.resolver)
          /\ dns'.pc = "done" => dns'.ret = ""
          /\ dns'.checked <=> dns'.input = <<>>
          /\ (dns'.checked /\ ~AllResolve(dns.entries, dns'.resolver)) =>
                /\ dns'.pc = "loop"
                /\ dns'.out = <<PromptMsg, NotConfiguredMsg>>
          /\ dns'.input \notin {SkipWord, <<>>} =>
                /\ dns'.pc = "loop"
                /\ ~dns'.checked
                /\ dns'.out = <<PromptMsg>>
      ]_vars

\* the loop has ended on a check that found two entries resolved, one of them
\* to its two records in another order, after an earlier check had failed
C11_Witness ==
    /\ dns.pc = "done"
    /\ dns.checked
    /\ dns.input = <<>>
    /\ dns.rejected
    /\ Len(dns.entries) = 2
    /\ dns.resolver[dns.entries[2].Name].ips = <<IPB, IPA>>
    /\ dns.entries[2].Records = <<RecordA, RecordB>>

====
